---- MODULE Spec2Model ----
(***************************************************************************)
(* The batch rendering pipeline of fx-processor: the browser page          *)
(* (process_audio.html / process_with_data.html) that renders one job per  *)
(* (source, preset) pair in waves of batchSize, and the express server     *)
(* (server.js) that stores the artifacts, answers the existence probe,     *)
(* takes the completion signal and shuts itself down.                      *)
(*                                                                         *)
(* A job is identified by its position in the list prepare_data derives    *)
(* (its outputId); the pipeline model takes the outputIds of one run as    *)
(* pairwise distinct.  A step of the model is one turn of the JavaScript   *)
(* event loop: an event handler together with every promise continuation   *)
(* (microtask) it makes runnable.                                          *)
(*                                                                         *)
(* A second model (SpecFiles) follows the same programs at the level of    *)
(* file names: prepare_data deriving the job list from the names in the    *)
(* source and preset directories, the effect constructors taking the       *)
(* parameter vector, and /save and /check-file writing and finding the     *)
(* artifacts and their sidecars under outputDir.                           *)
(***************************************************************************)
EXTENDS Integers, Sequences, FiniteSets, TLC

\* Largest job list (sources x presets) explored.
MaxJobs == 3

\* Largest wave size explored.  The pages fix batchSize at 5 (reverb) and
\* 8 (EQ); the wave logic is the same for every value, and small values
\* make several waves happen within MaxJobs.
MaxBatch == 2

Jobs == 1..MaxJobs

Pipelines == {"reverb", "eq"}

VARIABLES
    \* the inputs of a run (the same for the run and the rerun)
    pipeline,        \* which of the two effect families is run
    numJobs,         \* number of (source, preset) pairs
    batchSize,       \* const batchSize of processBatch
    rerun,           \* FALSE in the first run, TRUE in the run after it
    prevSignalled,   \* the first run's server took /complete and exited 0
    startFiles,      \* the artifacts that existed when this run started
    \* durable storage
    files,           \* outputIds whose <id>.wav exists in outputDir
    \* server.js
    serverSt,        \* "up", "exit0", "exit1"
    isComplete,
    totalSaved,
    totalSkipped,
    exitScheduled,   \* a 2 s exit timer of /complete is pending
    timerFired,      \* the TIMEOUT_MINUTES timer has fired
    completeInFlight,\* POST /complete requests on their way to the server
    \* the page
    pc,              \* where processBatch is
    batchData,       \* window.processingData
    waveStart,       \* i of the for loop
    probeIdx,        \* position in batch of the job being probed
    probeExists,     \* the reply of /check-file that is in flight
    jobsToProcess,
    totalJobs,
    completedJobs,
    skippedJobs,
    skippedFiles,
    jobSt,           \* per job: where its processAudio / saveToServer is
    lastProbe,       \* the last probed job and what checkFileExists returned
    completeSignals, \* POST /complete requests emitted by the page
    probes           \* per job: calls of checkFileExists that have returned

cfgVars == <<pipeline, numJobs, batchSize, startFiles>>
serverVars == <<serverSt, isComplete, totalSaved, totalSkipped, exitScheduled,
                timerFired>>
counterVars == <<totalJobs, completedJobs, skippedJobs, skippedFiles>>
loopVars == <<pc, waveStart, probeIdx, probeExists, jobsToProcess>>
\* The directories the scripts and the server work on, as far as the names
\* of the files in them matter, and the page's progress job by job.
VARIABLES
    sources,         \* base names of the .wav files given to prepare_data
    presetDir,       \* reverbDir / eqDir: preset base name -> param_values
    outDirs,         \* the subdirectories of outputDir
    outFiles,        \* the .wav files of outputDir: [id, from, whole]
    sidecars,        \* the <id>_<effect>_info.json files: [id, copyOf]
    processingData,  \* the job list prepare_data has written into the page
    firstData,       \* the job list of the first run
    jobAt,           \* per job of processingData: how far the page has got
    phase,           \* "prepare": not launched yet; "run"; "stopped": killed
    reply            \* the last answer of the server to /save or /check-file

fileVars == <<sources, presetDir, outDirs, outFiles, sidecars, processingData,
              firstData, jobAt, phase, reply>>

\* One Equalizer of the page (equalizer.js) and what its script shares with
\* every other Equalizer of the page.
VARIABLES
    eq,              \* the Equalizer: param.curve, param.range, the gains of
                     \* its filters, normalize
    globals,         \* i, max_el, min_el, dat: assigned without declaration
    solo,            \* the same Equalizer in a page that has no other one
    given,           \* the curve last taken by the constructor or the setter
    loadedVia,       \* what took it: "new" or "curve"
    lastOp,          \* the last assignment made on the Equalizer, and the
                     \* globals it found
    before           \* the Equalizer as it was before that assignment

eqVars == <<eq, globals, solo, given, loadedVia, lastOp, before>>

\* One call of bufferToWave.
VARIABLES
    wav              \* numOfChan, length (abuffer.length), the loop
                     \* variables i and j, view: per byte of the buffer the
                     \* writes made to it, and at: where the call is

vars == <<pipeline, numJobs, batchSize, rerun, prevSignalled, startFiles, files,
          serverSt,
          isComplete, totalSaved, totalSkipped, exitScheduled, timerFired,
          completeInFlight, pc, batchData, waveStart, probeIdx, probeExists,
          jobsToProcess, totalJobs, completedJobs, skippedJobs, skippedFiles,
          jobSt, lastProbe, completeSignals, probes, fileVars, eqVars, wav>>

\* A field a request does not carry (undefined), or carries empty.
Absent == << >>

\* The server has answered no /save and no /check-file yet.
NoReply == [route |-> "none", status |-> 0, id |-> Absent, data |-> Absent]

\* The wave model leaves the names alone: no directory is looked at.
FilesIdle ==
    /\ sources = {}
    /\ presetDir = << >>
    /\ outDirs = {}
    /\ outFiles = {}
    /\ sidecars = {}
    /\ processingData = << >>
    /\ firstData = << >>
    /\ jobAt = << >>
    /\ phase = "run"
    /\ reply = NoReply

\* bufferToWave is not being followed.
WavIdle ==
    wav = [at |-> "idle", numOfChan |-> 0, length |-> 0, i |-> 0, j |-> 0,
           view |-> << >>]

\* The wave model and the file model look at no Equalizer.
EqIdle ==
    /\ eq = << >>
    /\ globals = << >>
    /\ solo = << >>
    /\ given = << >>
    /\ loadedVia = "new"
    /\ lastOp = [kind |-> "none", value |-> << >>, found |-> << >>]
    /\ before = << >>

Min(a, b) == IF a < b THEN a ELSE b

Range(s) == {s[k] : k \in 1..Len(s)}

\* ---------------------------------------------------------------- prepare_data

\* The job list: one job per (source, preset) pair, in directory order.  The
\* EQ script leaves out the pairs whose artifact already exists; the reverb
\* script keeps them all (the page probes them).
PrepareData(pl, n, existing) ==
    LET all == [k \in 1..n |-> k]
        Missing(j) == j \notin existing
    IN  IF pl = "eq" THEN SelectSeq(all, Missing) ELSE all

\* ---------------------------------------------------------------- processBatch

\* A slice one job too long: batchData.slice(i, i + batchSize + 1).
BatchOneTooMany(data, i, w) ==
    SubSeq(data, i + 1, Min(i + w + 1, Len(data)))

\* The returned probes of a job are counted up to this number.
MaxProbes == 2

\* No probe has returned yet in this run.
NoProbe == [job |-> 0, outcome |-> "none"]

\* The wave starting one job early, at the last job of the wave before.
BatchFromPrevious(data, i, w) ==
    SubSeq(data, IF i = 0 THEN 1 ELSE i, Min(i + w, Len(data)))

\* A slice one job short: batchData.slice(i, i + batchSize - 1).
BatchOneShort(data, i, w) ==
    SubSeq(data, i + 1, Min(i + w - 1, Len(data)))

\* batchData.slice(i, i + batchSize), i counted from 0 as in the code.
Batch(data, i, w) ==
    SubSeq(data, i + 1, Min(i + w, Len(data)))

\* The test passing one job early.
DoneTestOneEarly(c, s, t) == c + s >= t - 1

\* The test both pages make before POST /complete.  The EQ page has no
\* skippedJobs: it is 0 there.
DoneTest(c, s, t) == c + s >= t

\* The skip test without its else: the job is processed all the same.
ToProcessAlways(exists, job, jtp) == jtp \cup {job}

\* What the skip test of processBatch adds to jobsToProcess.
ToProcess(exists, job, jtp) ==
    IF exists THEN jtp ELSE jtp \cup {job}

\* What the skip test of processBatch adds to skippedJobs.
SkipCount(exists, s) ==
    IF exists THEN s + 1 ELSE s

\* Promise.all over the wave's processAudio promises resolves when every one
\* of them has resolved.
Resolved(st) == st \in {"saving", "replying", "saved", "saveFailed"}

WaveResolved(js, st) == \A j \in js : Resolved(st[j])

\* processBatch arriving at the loop test with index i: the next wave starts
\* (reverb: its first probe is sent; EQ: its jobs are dispatched), or the
\* loop is over (reverb: the final test and POST /complete).
EnterWave(pl, data, i, w, c, s, t) ==
    IF i < Len(data)
    THEN IF pl = "reverb"
         THEN [pc |-> "probe", waveStart |-> i, probeIdx |-> 1,
               jobsToProcess |-> {}, dispatch |-> {}, signal |-> 0]
         ELSE [pc |-> "await", waveStart |-> i, probeIdx |-> 0,
               jobsToProcess |-> Range(Batch(data, i, w)),
               dispatch |-> Range(Batch(data, i, w)), signal |-> 0]
    ELSE [pc |-> "done", waveStart |-> i, probeIdx |-> 0,
          jobsToProcess |-> {}, dispatch |-> {},
          signal |-> IF pl = "reverb" /\ DoneTest(c, s, t) THEN 1 ELSE 0]

\* fetch('/complete', { method: 'POST' }), `signal` times: the request
\* reaches the server only while the server is up.
Posted(inFlight, signal) ==
    IF serverSt = "up" THEN inFlight + signal ELSE inFlight

\* The page takes the coordinator state r; st is the job table before the
\* wave's dispatch.
Coordinate(r, st) ==
    /\ pc' = r.pc
    /\ waveStart' = r.waveStart
    /\ probeIdx' = r.probeIdx
    /\ jobsToProcess' = r.jobsToProcess
    /\ jobSt' = [j \in Jobs |-> IF j \in r.dispatch THEN "fetching" ELSE st[j]]
    /\ completeSignals' = completeSignals + r.signal
    /\ completeInFlight' = Posted(completeInFlight, r.signal)

\* window.onload: processBatch(window.processingData) up to its first await.
ProcessBatchStart ==
    /\ pc = "load"
    /\ serverSt = "up"
    /\ totalJobs' = Len(batchData)
    /\ completedJobs' = 0
    /\ skippedJobs' = 0
    /\ skippedFiles' = {}
    /\ Coordinate(EnterWave(pipeline, batchData, 0, batchSize, 0, 0,
                            Len(batchData)), jobSt)
    /\ UNCHANGED <<probes, eqVars, fileVars, wav, cfgVars, rerun, prevSignalled, files, serverVars, batchData,
                   probeExists, lastProbe>>

\* ---------------------------------------------------------------- server.js

\* fs.existsSync(path.join(outputDir, `${id}.wav`))
FileExists(id, stored) == id \in stored

\* The probe sent for the first job of the wave, whatever the position.
ProbedJobFirst == Batch(batchData, waveStart, batchSize)[1]

\* The job whose probe is in flight.
ProbedJob == Batch(batchData, waveStart, batchSize)[probeIdx]

\* GET /check-file?id=<outputId>
CheckFile ==
    /\ serverSt = "up"
    /\ pc = "probe"
    /\ probeExists' = FileExists(ProbedJob, files)
    /\ totalSkipped' = IF FileExists(ProbedJob, files)
                       THEN totalSkipped + 1 ELSE totalSkipped
    /\ pc' = "probeReply"
    /\ UNCHANGED <<probes, eqVars, fileVars, wav, cfgVars, rerun, prevSignalled, files, serverSt, isComplete,
                   totalSaved, exitScheduled, timerFired, completeInFlight,
                   batchData, waveStart, probeIdx, jobsToProcess, counterVars,
                   jobSt, lastProbe, completeSignals>>

\* POST /save with the id and data of job j.
ServerSave(j) ==
    /\ serverSt = "up"
    /\ jobSt[j] = "saving"
    /\ files' = files \cup {j}
    /\ totalSaved' = totalSaved + 1
    /\ jobSt' = [jobSt EXCEPT ![j] = "replying"]
    /\ UNCHANGED <<probes, eqVars, fileVars, wav, cfgVars, rerun, prevSignalled, serverSt, isComplete,
                   totalSkipped, exitScheduled, timerFired, completeInFlight,
                   batchData, loopVars, counterVars, lastProbe, completeSignals>>

\* /complete scheduling the exit without setting isComplete.
CompleteHandleNoFlag ==
    /\ serverSt = "up"
    /\ completeInFlight > 0
    /\ completeInFlight' = completeInFlight - 1
    /\ exitScheduled' = TRUE
    /\ UNCHANGED <<probes, eqVars, fileVars, wav, cfgVars, rerun, prevSignalled, files, serverSt, isComplete,
                   totalSaved, totalSkipped, timerFired, batchData, loopVars,
                   counterVars, jobSt, lastProbe, completeSignals>>

\* /complete setting isComplete without scheduling the exit.
CompleteHandleNoExit ==
    /\ serverSt = "up"
    /\ completeInFlight > 0
    /\ completeInFlight' = completeInFlight - 1
    /\ isComplete' = TRUE
    /\ UNCHANGED <<probes, eqVars, fileVars, wav, cfgVars, rerun, prevSignalled, files, serverSt, totalSaved,
                   totalSkipped, exitScheduled, timerFired, batchData, loopVars,
                   counterVars, jobSt, lastProbe, completeSignals>>

\* POST /complete
CompleteHandle ==
    /\ serverSt = "up"
    /\ completeInFlight > 0
    /\ completeInFlight' = completeInFlight - 1
    /\ isComplete' = TRUE
    /\ exitScheduled' = TRUE
    /\ UNCHANGED <<probes, eqVars, fileVars, wav, cfgVars, rerun, prevSignalled, files, serverSt, totalSaved,
                   totalSkipped, timerFired, batchData, loopVars, counterVars,
                   jobSt, lastProbe, completeSignals>>

\* The 2 s timer set by /complete: process.exit(0).
ExitTimerFire ==
    /\ serverSt = "up"
    /\ exitScheduled
    /\ serverSt' = "exit0"
    /\ completeInFlight' = 0
    /\ UNCHANGED <<probes, eqVars, fileVars, wav, cfgVars, rerun, prevSignalled, files, isComplete, totalSaved,
                   totalSkipped, exitScheduled, timerFired, batchData, loopVars,
                   counterVars, jobSt, lastProbe, completeSignals>>

\* The timeout callback without its process.exit(1).
TimeoutFireNoExit ==
    /\ serverSt = "up"
    /\ ~timerFired
    /\ timerFired' = TRUE
    /\ UNCHANGED <<probes, eqVars, fileVars, wav, cfgVars, rerun, prevSignalled, files, serverSt, isComplete,
                   totalSaved, totalSkipped, exitScheduled, completeInFlight,
                   batchData, loopVars, counterVars, jobSt, lastProbe,
                   completeSignals>>

\* The TIMEOUT_MINUTES timer: process.exit(1) unless isComplete.
TimeoutFire ==
    /\ serverSt = "up"
    /\ ~timerFired
    /\ timerFired' = TRUE
    /\ serverSt' = IF ~isComplete THEN "exit1" ELSE serverSt
    /\ completeInFlight' = IF ~isComplete THEN 0 ELSE completeInFlight
    /\ UNCHANGED <<probes, eqVars, fileVars, wav, cfgVars, rerun, prevSignalled, files, isComplete, totalSaved,
                   totalSkipped, exitScheduled, batchData, loopVars,
                   counterVars, jobSt, lastProbe, completeSignals>>

\* ---------------------------------------------------------------- the page

\* checkFileExists returned `exists` for the probed job: the skip test of
\* processBatch, then the next probe of the wave or, after the wave's last
\* probe, Promise.all over jobsToProcess.
ProbeResult(exists, outcome) ==
    LET batch == Batch(batchData, waveStart, batchSize)
        job == ProbedJob
        jtp == ToProcess(exists, job, jobsToProcess)
        s == SkipCount(exists, skippedJobs)
    IN  /\ skippedJobs' = s
        /\ skippedFiles' = IF exists THEN skippedFiles \cup {job}
                           ELSE skippedFiles
        /\ lastProbe' = [job |-> job, outcome |-> outcome]
        /\ probes' = [probes EXCEPT ![job] = Min(probes[job] + 1, MaxProbes)]
        /\ probeExists' = FALSE
        /\ IF probeIdx < Len(batch)
           THEN Coordinate([pc |-> "probe", waveStart |-> waveStart,
                            probeIdx |-> probeIdx + 1, jobsToProcess |-> jtp,
                            dispatch |-> {}, signal |-> 0], jobSt)
           ELSE IF jtp = {}
           THEN Coordinate(EnterWave(pipeline, batchData,
                                     waveStart + batchSize, batchSize,
                                     completedJobs, s, totalJobs), jobSt)
           ELSE Coordinate([pc |-> "await", waveStart |-> waveStart,
                            probeIdx |-> 0, jobsToProcess |-> jtp,
                            dispatch |-> jtp, signal |-> 0], jobSt)
        /\ UNCHANGED <<eqVars, fileVars, wav, cfgVars, rerun, prevSignalled, files,
                       serverVars, batchData, totalJobs, completedJobs>>

\* What checkFileExists returns when the probe fails (its catch block).
OnProbeError == FALSE

\* checkFileExists: the reply of /check-file arrives and parses.
ProbeReturn ==
    /\ pc = "probeReply"
    /\ ProbeResult(probeExists, IF probeExists THEN "exists" ELSE "absent")

\* checkFileExists: the request fails or the reply does not parse.
ProbeError ==
    /\ pc \in {"probe", "probeReply"}
    /\ ProbeResult(OnProbeError, "error")

\* processAudio: the source was fetched.
FetchOk(j) ==
    /\ serverSt = "up"
    /\ jobSt[j] = "fetching"
    /\ jobSt' = [jobSt EXCEPT ![j] = "rendering"]
    /\ UNCHANGED <<probes, eqVars, fileVars, wav, cfgVars, rerun, prevSignalled, files, serverVars,
                   completeInFlight, batchData, loopVars, counterVars, lastProbe,
                   completeSignals>>

\* Where processBatch is once a promise of the wave it awaits has rejected:
\* Promise.all rejects, the await throws and nothing catches it.
OnReject(p) == IF p = "await" THEN "aborted" ELSE p

\* A failing processAudio that counts its job as completed all the same.
ProcessAudioFailCounted(j) ==
    /\ jobSt[j] \in {"fetching", "rendering"}
    /\ jobSt' = [jobSt EXCEPT ![j] = "rejected"]
    /\ pc' = OnReject(pc)
    /\ completedJobs' = completedJobs + 1
    /\ UNCHANGED <<probes, eqVars, fileVars, wav, cfgVars, rerun, prevSignalled, files, serverVars,
                   completeInFlight, batchData, waveStart, probeIdx,
                   probeExists, jobsToProcess, totalJobs, skippedJobs,
                   skippedFiles, lastProbe, completeSignals>>

\* processAudio rejects: the fetch or the decode failed ("fetching"), or the
\* render or bufferToWave failed ("rendering").
ProcessAudioFail(j) ==
    /\ jobSt[j] \in {"fetching", "rendering"}
    /\ jobSt' = [jobSt EXCEPT ![j] = "rejected"]
    /\ pc' = OnReject(pc)
    /\ UNCHANGED <<probes, eqVars, fileVars, wav, cfgVars, rerun, prevSignalled, files, serverVars,
                   completeInFlight, batchData, waveStart, probeIdx,
                   probeExists, jobsToProcess, counterVars, lastProbe,
                   completeSignals>>

\* The state of job j when processAudio resolves: saveToServer has been
\* called and not awaited.
AfterRender == "saving"

\* processAudio: startRendering resolved; bufferToWave, saveToServer,
\* completedJobs++, resolve().  When this was the wave's last promise,
\* processBatch goes on to the next wave in the same turn.
RenderDone(j) ==
    /\ jobSt[j] = "rendering"
    /\ completedJobs' = completedJobs + 1
    /\ LET st == [jobSt EXCEPT ![j] = AfterRender]
       IN  IF pc = "await" /\ WaveResolved(jobsToProcess, st)
           THEN Coordinate(EnterWave(pipeline, batchData,
                                     waveStart + batchSize, batchSize,
                                     completedJobs + 1, skippedJobs,
                                     totalJobs), st)
           ELSE /\ jobSt' = st
                /\ UNCHANGED <<pc, waveStart, probeIdx, jobsToProcess,
                               completeSignals, completeInFlight>>
    /\ UNCHANGED <<probes, eqVars, fileVars, wav, cfgVars, rerun, prevSignalled, files, serverVars, batchData,
                   probeExists, totalJobs, skippedJobs, skippedFiles, lastProbe>>

\* saveToServer: the reply of /save arrives; POST /complete when the
\* counters have reached the total.
SaveResponse(j) ==
    /\ jobSt[j] = "replying"
    /\ jobSt' = [jobSt EXCEPT ![j] = "saved"]
    /\ LET signal == IF DoneTest(completedJobs, skippedJobs, totalJobs)
                     THEN 1 ELSE 0
       IN  /\ completeSignals' = completeSignals + signal
           /\ completeInFlight' = Posted(completeInFlight, signal)
    /\ UNCHANGED <<probes, eqVars, fileVars, wav, cfgVars, rerun, prevSignalled, files, serverVars, batchData,
                   loopVars, counterVars, lastProbe>>

\* saveToServer: the POST /save fails (its catch block logs it).
SaveFail(j) ==
    /\ jobSt[j] = "saving"
    /\ jobSt' = [jobSt EXCEPT ![j] = "saveFailed"]
    /\ UNCHANGED <<probes, eqVars, fileVars, wav, cfgVars, rerun, prevSignalled, files, serverVars,
                   completeInFlight, batchData, loopVars, counterVars, lastProbe,
                   completeSignals>>

\* ---------------------------------------------------------------- the run

\* The launcher is started again over the same sources and presets after
\* the server of the first run has exited: prepare_data, a new server, a
\* new page.  Nothing is removed from outputDir.
Rerun ==
    /\ ~rerun
    /\ serverSt # "up"
    /\ rerun' = TRUE
    /\ prevSignalled' = (completeSignals > 0 /\ isComplete /\ serverSt = "exit0")
    /\ serverSt' = "up"
    /\ isComplete' = FALSE
    /\ totalSaved' = 0
    /\ totalSkipped' = 0
    /\ exitScheduled' = FALSE
    /\ timerFired' = FALSE
    /\ completeInFlight' = 0
    /\ pc' = "load"
    /\ batchData' = PrepareData(pipeline, numJobs, files)
    /\ waveStart' = 0
    /\ probeIdx' = 0
    /\ probeExists' = FALSE
    /\ jobsToProcess' = {}
    /\ totalJobs' = 0
    /\ completedJobs' = 0
    /\ skippedJobs' = 0
    /\ skippedFiles' = {}
    /\ jobSt' = [j \in Jobs |-> "idle"]
    /\ lastProbe' = NoProbe
    /\ completeSignals' = 0
    /\ startFiles' = files
    /\ probes' = [j \in Jobs |-> 0]
    /\ UNCHANGED <<eqVars, fileVars, wav, pipeline, numJobs, batchSize, files>>

Init ==
    /\ pipeline \in Pipelines
    /\ numJobs \in 1..MaxJobs
    /\ batchSize \in 1..MaxBatch
    /\ rerun = FALSE
    /\ prevSignalled = FALSE
    /\ files \in SUBSET (1..numJobs)
    /\ startFiles = files
    /\ serverSt = "up"
    /\ isComplete = FALSE
    /\ totalSaved = 0
    /\ totalSkipped = 0
    /\ exitScheduled = FALSE
    /\ timerFired = FALSE
    /\ completeInFlight = 0
    /\ pc = "load"
    /\ batchData = PrepareData(pipeline, numJobs, files)
    /\ waveStart = 0
    /\ probeIdx = 0
    /\ probeExists = FALSE
    /\ jobsToProcess = {}
    /\ totalJobs = 0
    /\ completedJobs = 0
    /\ skippedJobs = 0
    /\ skippedFiles = {}
    /\ jobSt = [j \in Jobs |-> "idle"]
    /\ lastProbe = NoProbe
    /\ completeSignals = 0
    /\ probes = [j \in Jobs |-> 0]
    /\ FilesIdle
    /\ EqIdle
    /\ WavIdle

Next ==
    \/ ProcessBatchStart
    \/ CheckFile
    \/ ProbeReturn
    \/ ProbeError
    \/ \E j \in Jobs : FetchOk(j)
    \/ \E j \in Jobs : ProcessAudioFail(j)
    \/ \E j \in Jobs : RenderDone(j)
    \/ \E j \in Jobs : ServerSave(j)
    \/ \E j \in Jobs : SaveResponse(j)
    \/ \E j \in Jobs : SaveFail(j)
    \/ CompleteHandle
    \/ ExitTimerFire
    \/ TimeoutFire

\* One run of the launcher over an output directory that may already hold
\* artifacts of earlier runs.
Spec == Init /\ [][Next]_vars

NextRerun ==
    \/ Next
    \/ Rerun

\* A run and the run after it.
SpecRerun == Init /\ [][NextRerun]_vars

\* ---------------------------------------------------------------- names
\*
\* A file name or an outputId is a sequence of tokens: words, and the
\* separators "_" and "/".

\* Most sources and most preset files handed to one run of prepare_data.
MaxSources == 2
MaxPresets == 2

\* The number of bands of the equalizer: the loop bound of Equalizer.
Bands == 40

\* The number of parameters the reverb page takes from reverbParams.
ReverbArgs == 6

\* s.split(sep)
RECURSIVE Split(_, _)
Split(s, sep) ==
    IF \A k \in 1..Len(s) : s[k] # sep
    THEN <<s>>
    ELSE LET k == CHOOSE k \in 1..Len(s) :
                      s[k] = sep /\ \A i \in 1..(k - 1) : s[i] # sep
         IN  <<SubSeq(s, 1, k - 1)>> \o Split(SubSeq(s, k + 1, Len(s)), sep)

\* What a template literal makes of undefined.
Undefined == <<"undefined">>

\* path.basename(presetFile, '.json').split('_')[1]
PresetId(base) ==
    LET parts == Split(base, "_")
    IN  IF Len(parts) >= 2 THEN parts[2] ELSE Undefined

\* The outputId without the effect prefix: `${id}/${audioName}`.
OutputIdNoPrefix(pl, id, audioName) == id \o <<"/">> \o audioName

\* `reverb_${reverbId}/${audioName}` and `eq_${eqId}/${audioName}`
OutputId(pl, id, audioName) == <<pl, "_">> \o id \o <<"/">> \o audioName

\* /save: `reverb_${id.split('_').pop()}` (`eq_...`), the base name of the
\* preset file whose copy becomes the sidecar.
InfoSource(pl, id) ==
    LET parts == Split(id, "_")
    IN  <<pl, "_">> \o parts[Len(parts)]

\* path.dirname of <id>.wav, relative to outputDir.
Dirname(id) == Split(id, "/")[1]

\* req.query.id for the request `/check-file?id=${id}`, the id put into the
\* URL as it is: the URL ends the query at "#", the query parser ends the
\* value at "&" and reads "+" as a space.
QueryId(id) ==
    LET cut == {k \in 1..Len(id) : id[k] \in {"&", "#"}}
        n == IF cut = {} THEN Len(id)
             ELSE (CHOOSE k \in cut : \A m \in cut : k <= m) - 1
    IN  [k \in 1..n |-> IF id[k] = "+" THEN " " ELSE id[k]]

\* The base names of the sources, in the order readdirSync lists them.
SourceNames ==
    << <<"a">>, <<"a", "_", "1">>, <<"b">>, <<"b", "+", "c">> >>

\* The base names of the preset files, in the order readdirSync lists them.
PresetNames(pl) ==
    << <<pl, "_", "1">>, <<pl, "_", "1", "_", "x">>, <<pl, "_", "2">>,
       <<pl, "_", "3">>, <<"x">> >>

\* The length param_values has for the effect.
VectorLen(pl) == IF pl = "eq" THEN Bands ELSE ReverbArgs

\* param_values of the preset files: the fourth one has one value too
\* many, the fifth is one value short.
ParamValues(pl, name) ==
    LET n == IF name = PresetNames(pl)[4] THEN VectorLen(pl) + 1
             ELSE IF name = PresetNames(pl)[5] THEN VectorLen(pl) - 1
             ELSE VectorLen(pl)
    IN  [i \in 1..n |-> i]

\* fs.readdirSync(dir).filter(...): the names of `present`, in order.
ListDir(order, present) == SelectSeq(order, LAMBDA n : n \in present)

\* ---------------------------------------------------------------- prepare_data

\* The job pushed for one (source, preset file) pair.  presetFile is the
\* file param_values was read from.
Job(pl, audioName, presetFile, dir) ==
    [audioFile |-> audioName,
     presetId |-> PresetId(presetFile),
     params |-> dir[presetFile],
     outputId |-> OutputId(pl, PresetId(presetFile), audioName),
     presetFile |-> presetFile]

\* The nested loop of prepare_data over the sources and the preset files.
\* The EQ script leaves out a pair whose <outputId>.wav exists.
DeriveJobs(pl, srcs, dir, existing) ==
    LET a == ListDir(SourceNames, srcs)
        p == ListDir(PresetNames(pl), DOMAIN dir)
        all == [k \in 1..(Len(a) * Len(p)) |->
                   Job(pl, a[((k - 1) \div Len(p)) + 1],
                       p[((k - 1) % Len(p)) + 1], dir)]
    IN  IF pl = "eq"
        THEN SelectSeq(all, LAMBDA j : j.outputId \notin existing)
        ELSE all

\* ---------------------------------------------------------------- the effects

\* new Equalizer(context, {curve}): param.curve is the vector as given, the
\* loop sets the gains of the Bands filters from curve[0..Bands-1], and
\* setting a gain to undefined throws.
EqualizerNew(curve) ==
    [curve |-> curve,
     gains |-> SubSeq(curve, 1, Min(Bands, Len(curve))),
     threw |-> Len(curve) < Bands]

\* new Reverb(context, {d: reverbParams[0], ..., wetdry: reverbParams[5]}):
\* the arguments taken from the vector, and whether one is undefined.
ReverbNew(reverbParams) ==
    [args |-> SubSeq(reverbParams, 1, Min(ReverbArgs, Len(reverbParams))),
     missing |-> Len(reverbParams) < ReverbArgs]

\* The values of the vector the effect is built from.
EffectValues(pl, params) ==
    IF pl = "eq" THEN EqualizerNew(params).gains ELSE ReverbNew(params).args

\* processAudio can reject because of the vector.  What Reverb does with an
\* undefined argument is not in this repository: it may throw or not.
MayThrow(pl, params) ==
    IF pl = "eq" THEN EqualizerNew(params).threw ELSE ReverbNew(params).missing

\* processAudio must reject because of the vector.
MustThrow(pl, params) ==
    IF pl = "eq" THEN EqualizerNew(params).threw ELSE FALSE

\* ---------------------------------------------------------------- files

\* The base64 text of a rendered artifact.
SomeData == <<"wav">>

\* An id some client sends.
SomeId == <<"x">>

\* What the server answers: the route, the status, and whether the request
\* carried an id and data.
Answer(route, status, id, data) ==
    [route |-> route, status |-> status,
     id |-> IF id = Absent THEN Absent ELSE SomeId,
     data |-> IF data = Absent THEN Absent ELSE SomeData]

\* The test of /save looking at data only.
RefusedIfNoData(id, data) == data = Absent

\* /save: if (!id || !data)
Refused(id, data) == id = Absent \/ data = Absent

\* /check-file: if (!id)
ProbeRefused(id) == id = Absent

Ids(fs) == {f.id : f \in fs}

\* Writing a file replaces the one of the same id.
Write(fs, f) == {g \in fs : g.id # f.id} \cup {f}

\* The sidecar written by /save for id: the copy of the looked-up preset
\* file if fs.existsSync finds it, none otherwise.
CopyInfo(pl, id, dir, infos) ==
    IF InfoSource(pl, id) \in DOMAIN dir
    THEN Write(infos, [id |-> id, copyOf |-> InfoSource(pl, id)])
    ELSE infos

\* The reverb server makes the directory of the artifact before writing; the
\* EQ server makes outputDir only, and writeFileSync throws without the
\* subdirectory.
CanWrite(pl, id, dirs) == pl = "reverb" \/ Dirname(id) \in dirs

AfterMkdir(pl, id, dirs) ==
    IF pl = "reverb" THEN dirs \cup {Dirname(id)} ELSE dirs

\* The file model follows the page one job at a time, in list order, as
\* processBatch does with a wave of one job: job k is taken up when the
\* jobs before it are through.
Turn(k) ==
    /\ jobAt[k] = "new"
    /\ \A i \in 1..(k - 1) : jobAt[i] \in {"skipped", "failed", "posted"}

\* The variables of the wave model, which the file model leaves alone.
waveVars == <<numJobs, batchSize, prevSignalled, startFiles, files, serverSt,
              isComplete, exitScheduled, timerFired, completeInFlight, pc,
              batchData, waveStart, probeIdx, probeExists, jobsToProcess,
              totalJobs, completedJobs, skippedJobs, skippedFiles, jobSt,
              lastProbe, completeSignals, probes>>

\* node prepare_data.js, then node server.js, as the launcher runs them
\* after killing whatever server still holds the port.  They are run once,
\* and once again over the same directories.
Launch ==
    /\ phase = "prepare" \/ ~rerun
    /\ rerun' = (phase # "prepare")
    /\ processingData' = DeriveJobs(pipeline, sources, presetDir, Ids(outFiles))
    /\ firstData' = IF phase = "prepare" THEN processingData' ELSE firstData
    /\ jobAt' = [k \in 1..Len(processingData') |-> "new"]
    /\ totalSaved' = 0
    /\ totalSkipped' = 0
    /\ phase' = "run"
    /\ reply' = NoReply
    /\ UNCHANGED <<eqVars, waveVars, wav, pipeline, sources, presetDir, outDirs, outFiles,
                   sidecars>>

\* The reverb page probes job k: GET /check-file and the skip test.
CheckFileProbe(k) ==
    /\ phase = "run"
    /\ pipeline = "reverb"
    /\ Turn(k)
    /\ LET exists == QueryId(processingData[k].outputId) \in Ids(outFiles)
       IN  /\ totalSkipped' = IF exists THEN totalSkipped + 1 ELSE totalSkipped
           /\ jobAt' = [jobAt EXCEPT ![k] = IF exists THEN "skipped"
                                            ELSE "probed"]
    /\ reply' = Answer("check-file", 200, processingData[k].outputId, Absent)
    /\ UNCHANGED <<eqVars, waveVars, wav, pipeline, rerun, totalSaved, sources, presetDir,
                   outDirs, outFiles, sidecars, processingData, firstData,
                   phase>>

\* The page may start on job k: the reverb page after the probe found
\* nothing, the EQ page at once.
Renderable(k) ==
    /\ phase = "run"
    /\ IF pipeline = "reverb"
       THEN jobAt[k] = "probed"
       ELSE Turn(k)

\* processAudio of job k builds the effect from the job's vector and renders.
RenderJob(k) ==
    /\ Renderable(k)
    /\ ~MustThrow(pipeline, processingData[k].params)
    /\ jobAt' = [jobAt EXCEPT ![k] = "rendered"]
    /\ UNCHANGED <<eqVars, waveVars, wav, pipeline, rerun, totalSaved, totalSkipped, sources,
                   presetDir, outDirs, outFiles, sidecars, processingData,
                   firstData, phase, reply>>

\* processAudio of job k rejects when the effect is built.
RenderThrows(k) ==
    /\ Renderable(k)
    /\ MayThrow(pipeline, processingData[k].params)
    /\ jobAt' = [jobAt EXCEPT ![k] = "failed"]
    /\ UNCHANGED <<eqVars, waveVars, wav, pipeline, rerun, totalSaved, totalSkipped, sources,
                   presetDir, outDirs, outFiles, sidecars, processingData,
                   firstData, phase, reply>>

\* POST /save of job k: mkdir, writeFileSync, the sidecar copy, totalSaved++.
\* When writeFileSync throws, express answers 500 and nothing is stored.
SaveArtifact(k) ==
    LET job == processingData[k]
        id == job.outputId
    IN  /\ phase = "run"
        /\ jobAt[k] = "rendered"
        /\ jobAt' = [jobAt EXCEPT ![k] = "posted"]
        /\ outDirs' = AfterMkdir(pipeline, id, outDirs)
        /\ IF CanWrite(pipeline, id, outDirs)
           THEN /\ outFiles' = Write(outFiles, [id |-> id,
                                                from |-> job.presetFile,
                                                whole |-> TRUE])
                /\ sidecars' = CopyInfo(pipeline, id, presetDir, sidecars)
                /\ totalSaved' = totalSaved + 1
                /\ reply' = Answer("save", 200, id, SomeData)
           ELSE /\ reply' = Answer("save", 500, id, SomeData)
                /\ UNCHANGED <<outFiles, sidecars, totalSaved>>
        /\ UNCHANGED <<eqVars, waveVars, wav, pipeline, rerun, totalSkipped, sources,
                       presetDir, processingData, firstData, phase>>

\* The server process is killed while writeFileSync of job k is writing (the
\* launcher kills whatever holds the port): the file is there, in part.
SaveInterrupted(k) ==
    LET job == processingData[k]
        id == job.outputId
    IN  /\ phase = "run"
        /\ jobAt[k] = "rendered"
        /\ CanWrite(pipeline, id, outDirs)
        /\ jobAt' = [jobAt EXCEPT ![k] = "posted"]
        /\ outDirs' = AfterMkdir(pipeline, id, outDirs)
        /\ outFiles' = Write(outFiles, [id |-> id, from |-> job.presetFile,
                                        whole |-> FALSE])
        /\ phase' = "stopped"
        /\ UNCHANGED <<eqVars, waveVars, wav, pipeline, rerun, totalSaved, totalSkipped,
                       sources, presetDir, sidecars, processingData, firstData,
                       reply>>

\* POST /save with a body that lacks id, data or both, from any client:
\* refused with 400; past the test, Buffer.from(undefined) throws, and
\* with data given `${id}.wav` is written as undefined.wav before
\* id.split throws.  express answers 500 to what is thrown.
SaveLacking(id, data) ==
    /\ phase = "run"
    /\ id = Absent \/ data = Absent
    /\ IF Refused(id, data)
       THEN /\ reply' = Answer("save", 400, id, data)
            /\ UNCHANGED outFiles
       ELSE /\ reply' = Answer("save", 500, id, data)
            /\ outFiles' = IF data = Absent THEN outFiles
                           ELSE Write(outFiles, [id |-> Undefined,
                                                 from |-> Absent,
                                                 whole |-> TRUE])
    /\ UNCHANGED <<eqVars, waveVars, wav, pipeline, rerun, totalSaved, totalSkipped,
                   sources, presetDir, outDirs, sidecars, processingData,
                   firstData, jobAt, phase>>

\* GET /check-file without id, from any client: refused with 400; past the
\* test, fs.existsSync looks for undefined.wav.
CheckFileLacking ==
    /\ phase = "run"
    /\ pipeline = "reverb"
    /\ IF ProbeRefused(Absent)
       THEN /\ reply' = Answer("check-file", 400, Absent, Absent)
            /\ UNCHANGED totalSkipped
       ELSE /\ reply' = Answer("check-file", 200, Absent, Absent)
            /\ totalSkipped' = IF Undefined \in Ids(outFiles)
                               THEN totalSkipped + 1 ELSE totalSkipped
    /\ UNCHANGED <<eqVars, waveVars, wav, pipeline, rerun, totalSaved, sources,
                   presetDir, outDirs, outFiles, sidecars, processingData,
                   firstData, jobAt, phase>>

\* The wave model is not run: its variables stay as they are at page load.
WaveIdle ==
    /\ numJobs = 1
    /\ batchSize = 1
    /\ prevSignalled = FALSE
    /\ startFiles = {}
    /\ files = {}
    /\ serverSt = "up"
    /\ isComplete = FALSE
    /\ exitScheduled = FALSE
    /\ timerFired = FALSE
    /\ completeInFlight = 0
    /\ pc = "load"
    /\ batchData = << >>
    /\ waveStart = 0
    /\ probeIdx = 0
    /\ probeExists = FALSE
    /\ jobsToProcess = {}
    /\ totalJobs = 0
    /\ completedJobs = 0
    /\ skippedJobs = 0
    /\ skippedFiles = {}
    /\ jobSt = [j \in Jobs |-> "idle"]
    /\ lastProbe = NoProbe
    /\ completeSignals = 0
    /\ probes = [j \in Jobs |-> 0]

\* The directories a first run can find: one source for the reverb script
\* and up to MaxSources for the EQ script, up to MaxPresets preset files,
\* an empty outputDir, with or without the per-preset subdirectories the
\* launcher makes.
InitFiles ==
    /\ pipeline \in Pipelines
    /\ rerun = FALSE
    /\ totalSaved = 0
    /\ totalSkipped = 0
    /\ WaveIdle
    /\ \E S \in SUBSET Range(SourceNames) :
          /\ Cardinality(S) >= 1
          /\ Cardinality(S) <= (IF pipeline = "reverb" THEN 1 ELSE MaxSources)
          /\ sources = S
    /\ \E N \in SUBSET Range(PresetNames(pipeline)) :
          /\ Cardinality(N) <= MaxPresets
          /\ presetDir = [n \in N |-> ParamValues(pipeline, n)]
    /\ outDirs \in {{}, DOMAIN presetDir}
    /\ outFiles = {}
    /\ sidecars = {}
    /\ processingData = << >>
    /\ firstData = << >>
    /\ jobAt = << >>
    /\ phase = "prepare"
    /\ reply = NoReply
    /\ EqIdle
    /\ WavIdle

NextFiles ==
    \/ Launch
    \/ \E k \in DOMAIN jobAt : CheckFileProbe(k)
    \/ \E k \in DOMAIN jobAt : RenderJob(k)
    \/ \E k \in DOMAIN jobAt : RenderThrows(k)
    \/ \E k \in DOMAIN jobAt : SaveArtifact(k)
    \/ \E k \in DOMAIN jobAt : SaveInterrupted(k)
    \/ \E id \in {Absent, SomeId}, data \in {Absent, SomeData} :
          SaveLacking(id, data)
    \/ CheckFileLacking

\* Up to two runs of the launcher over the same directories, seen at the
\* level of file names.
SpecFiles == InitFiles /\ [][NextFiles]_vars

\* ---------------------------------------------------------------- equalizer.js

\* Largest range assigned.
MaxRange == 2

\* A JavaScript number is kept as an exact fraction <<numerator, denominator>>
\* in lowest terms; the doubles of the code are the fractions rounded.
Abs(n) == IF n < 0 THEN -n ELSE n

RECURSIVE Gcd(_, _)
Gcd(a, b) == IF b = 0 THEN a ELSE Gcd(b, a % b)

Frac(n, d) ==
    LET s == IF d < 0 THEN -1 ELSE 1
        g == Gcd(Abs(n), Abs(d))
    IN  <<(s * n) \div g, (s * d) \div g>>

Num(n) == <<n, 1>>

\* undefined, or NaN, where a number is expected.
NoNumber == <<0, 0>>

Sub(a, b) == Frac(a[1] * b[2] - b[1] * a[2], a[2] * b[2])

Mul(a, b) == Frac(a[1] * b[1], a[2] * b[2])

Div(a, b) == Frac(a[1] * b[2], a[2] * b[1])

Less(a, b) == a[1] * b[2] < b[1] * a[2]

\* The first loop over value, with max_el and min_el started at mx and mn:
\* it leaves the largest and the smallest of the start and the Bands values.
Scan(value, mx, mn) ==
    LET seen == {value[k] : k \in 1..Bands}
    IN  [max_el |-> CHOOSE m \in seen \cup {mx} :
                        \A v \in seen \cup {mx} : ~Less(m, v),
         min_el |-> CHOOSE m \in seen \cup {mn} :
                        \A v \in seen \cup {mn} : ~Less(v, m)]

\* The loop started from what an earlier call left in max_el and min_el.
CurveBoundsCarried(value, g) ==
    Scan(value,
         IF g.max_el = NoNumber THEN Num(0) ELSE g.max_el,
         IF g.min_el = NoNumber THEN Num(0) ELSE g.min_el)

\* max_el = 0; min_el = 0; and the loop: the globals are assigned before
\* they are read.
CurveBounds(value, g) == Scan(value, Num(0), Num(0))

\* dat after "dat = dat / (max_el - min_el) * (2)".
Dat(v, b) == Mul(Div(Sub(v, b.min_el), Sub(b.max_el, b.min_el)), Num(2))

\* The value pushed without the shift by one.
NormalizedNoShift(v, b) == Dat(v, b)

\* The value pushed: dat - 1.
Normalized(v, b) == Sub(Dat(v, b), Num(1))

\* The gain without the factor 5.
GainNoFive(range, n) == Mul(range, n)

\* The argument of gain.setValueAtTime.
Gain(range, n) == Mul(Mul(range, Num(5)), n)

\* A curve longer than Bands is taken.
RejectedIfShorter(value) == Len(value) < Bands

\* if (value.length != 40) return -1;
Rejected(value) == Len(value) # Bands

\* The body of the second loop for a band whose value is v: what is pushed
\* onto param.curve, and the argument of gain.setValueAtTime.
Band(e, v, b) ==
    [pushed |-> IF e.normalize THEN Normalized(v, b) ELSE v,
     gain |-> Gain(e.param.range,
                   IF e.normalize THEN Normalized(v, b) ELSE v)]

\* The body depends on the band through value[k] only: one entry for each
\* value that occurs.
PerValue(e, value, b) == [v \in {value[k] : k \in 1..Bands} |-> Band(e, v, b)]

\* The second loop run through all Bands bands, t being PerValue.
Filled(e, value, b, g, t) ==
    [eq |-> [e EXCEPT !.param.curve = [k \in 1..Bands |-> t[value[k]].pushed],
                      !.gains = [k \in 1..Bands |-> t[value[k]].gain]],
     globals |-> [i |-> Num(Bands), max_el |-> b.max_el, min_el |-> b.min_el,
                  dat |-> IF e.normalize THEN Dat(value[Bands], b) ELSE g.dat]]

\* The second loop of the curve setter, with max_el and min_el in b.  When
\* max_el == min_el nothing is pushed, param.curve[0] is undefined, the
\* argument of the first setValueAtTime is NaN and the call throws a
\* TypeError: param.curve stays empty and no gain is set.
SecondLoop(e, value, b, g) ==
    IF e.normalize /\ b.max_el = b.min_el
    THEN [eq |-> [e EXCEPT !.param.curve = << >>],
          globals |-> [i |-> Num(0), max_el |-> b.max_el, min_el |-> b.min_el,
                       dat |-> Sub(value[1], b.min_el)]]
    ELSE CHOOSE r \in {Filled(e, value, b, g, t) :
                            t \in {PerValue(e, value, b)}} : TRUE

\* The curve setter on Equalizer e, with the globals as they are.
CurveSetter(e, value, g) ==
    IF Rejected(value)
    THEN [eq |-> e, globals |-> g]
    ELSE CHOOSE r \in {SecondLoop(e, value, b, g) :
                            b \in {CurveBounds(value, g)}} : TRUE

\* The range setter: param.range = value, then this.curve = this.param.curve.
RangeSetter(e, value, g) ==
    CurveSetter([e EXCEPT !.param.range = value], e.param.curve, g)

\* new Equalizer(context, opts): range 1 unless given, normalize true, and
\* the gains as EqualizerNew sets them.
Constructed(opts) ==
    [param |-> [curve |-> opts.curve,
                range |-> IF opts.range = NoNumber THEN Num(1)
                          ELSE opts.range],
     gains |-> EqualizerNew(opts.curve).gains,
     normalize |-> TRUE]

\* The curves tried: Bands values, a at the odd and b at the even bands.
Alternating(a, b, n) == [k \in 1..n |-> Num(IF k % 2 = 1 THEN a ELSE b)]

CurvePairs == {<<0, 0>>, <<5, 5>>, <<2, 5>>, <<-5, 5>>, <<-5, -2>>, <<0, 5>>}

Curves == {Alternating(p[1], p[2], Bands) : p \in CurvePairs}

\* Curves of a length the setter refuses.
OddCurves == {Alternating(2, 5, Bands - 1), Alternating(2, 5, Bands + 1)}

\* The curves assigned to the other Equalizers of the page.
OtherCurves == {Alternating(-5, 5, Bands), Alternating(0, 0, Bands)}

Ranges == {Num(r) : r \in 1..MaxRange}

\* The page has loaded equalizer.js and built no Equalizer yet.
NoGlobals == [i |-> NoNumber, max_el |-> NoNumber, min_el |-> NoNumber,
              dat |-> NoNumber]

Built == eq # << >>

\* new Equalizer(context, {curve, range}) or new Equalizer(context, {curve}).
NewEqualizer(curve, range) ==
    /\ ~Built
    /\ eq' = Constructed([curve |-> curve, range |-> range])
    /\ solo' = eq'
    /\ globals' = [globals EXCEPT !.i = Num(Bands)]
    /\ given' = curve
    /\ loadedVia' = "new"
    /\ lastOp' = [kind |-> "new", value |-> curve,
                  found |-> globals]
    /\ before' = eq
    /\ UNCHANGED <<waveVars, fileVars, wav, pipeline, rerun, totalSaved,
                   totalSkipped>>

\* eq.curve = value
AssignCurve(value) ==
    /\ Built
    /\ LET r == CurveSetter(eq, value, globals)
       IN  /\ eq' = r.eq
           /\ globals' = r.globals
    /\ solo' = CurveSetter(solo, value, NoGlobals).eq
    /\ given' = IF Rejected(value) THEN given ELSE value
    /\ loadedVia' = IF Rejected(value) THEN loadedVia ELSE "curve"
    /\ lastOp' = [kind |-> "curve", value |-> value,
                  found |-> globals]
    /\ before' = eq
    /\ UNCHANGED <<waveVars, fileVars, wav, pipeline, rerun, totalSaved,
                   totalSkipped>>

\* eq.range = value
AssignRange(value) ==
    /\ Built
    /\ LET r == RangeSetter(eq, value, globals)
       IN  /\ eq' = r.eq
           /\ globals' = r.globals
    /\ solo' = RangeSetter(solo, value, NoGlobals).eq
    /\ lastOp' = [kind |-> "range", value |-> value,
                  found |-> globals]
    /\ before' = eq
    /\ UNCHANGED <<waveVars, fileVars, wav, pipeline, rerun, totalSaved,
                   totalSkipped, given, loadedVia>>

\* Another Equalizer of the page is built: its loop runs i up to Bands.
OtherNew ==
    /\ globals' = [globals EXCEPT !.i = Num(Bands)]
    /\ globals' # globals
    /\ UNCHANGED <<waveVars, fileVars, wav, pipeline, rerun, totalSaved,
                   totalSkipped, eq, solo, given, loadedVia, lastOp, before>>

\* Another Equalizer of the page is assigned a curve.
OtherAssignCurve(value) ==
    /\ globals' = CurveSetter(Constructed([curve |-> value,
                                           range |-> NoNumber]),
                              value, globals).globals
    /\ globals' # globals
    /\ UNCHANGED <<waveVars, fileVars, wav, pipeline, rerun, totalSaved,
                   totalSkipped, eq, solo, given, loadedVia, lastOp, before>>

InitEq ==
    /\ pipeline = "eq"
    /\ rerun = FALSE
    /\ totalSaved = 0
    /\ totalSkipped = 0
    /\ WaveIdle
    /\ FilesIdle
    /\ eq = << >>
    /\ solo = << >>
    /\ globals = NoGlobals
    /\ given = << >>
    /\ loadedVia = "new"
    /\ lastOp = [kind |-> "none", value |-> << >>, found |-> << >>]
    /\ before = << >>
    /\ WavIdle

NextEq ==
    \/ \E c \in Curves, r \in Ranges \cup {NoNumber} : NewEqualizer(c, r)
    \/ \E c \in Curves \cup OddCurves : AssignCurve(c)
    \/ \E r \in Ranges : AssignRange(r)
    \/ OtherNew
    \/ \E c \in OtherCurves : OtherAssignCurve(c)

\* One Equalizer of a page, built and then assigned curves and ranges in any
\* order, while other Equalizers of the same page are built and assigned.
SpecEq == InitEq /\ [][NextEq]_vars

\* ---------------------------------------------------------------- bufferToWave

\* Most channels and most frames of the AudioBuffer handed to bufferToWave.
MaxChan == 3
MaxFrames == 6

\* const offset = 44: where the audio data start.
offset == 44

\* The header fields as written: <<byte offset, bytes>> of writeString (4
\* characters), setUint32 and setUint16.
HeaderFields ==
    << <<0, 4>>, <<4, 4>>, <<8, 4>>, <<12, 4>>, <<16, 4>>, <<20, 2>>,
       <<22, 2>>, <<24, 4>>, <<28, 4>>, <<32, 2>>, <<34, 2>>, <<36, 4>>,
       <<40, 4>> >>

\* abuffer.length * numOfChan * 2
DataLength(numOfChan, frames) == frames * numOfChan * 2

\* new ArrayBuffer(44 + length): its bytes, none written yet.
NewView(numOfChan, frames) ==
    [b \in 0..(44 + DataLength(numOfChan, frames) - 1) |-> << >>]

\* A DataView setter writing `size` bytes at byte offset `at` for `who`.
Set(view, at, size, who) ==
    [b \in DOMAIN view |->
        IF b >= at /\ b < at + size THEN Append(view[b], who) ELSE view[b]]

\* The setter throws a RangeError when the bytes do not lie in the buffer.
InView(view, at, size) ==
    \A b \in at..(at + size - 1) : b \in DOMAIN view

RECURSIVE WriteFields(_, _)
WriteFields(view, fields) ==
    IF fields = << >> THEN view
    ELSE WriteFields(Set(view, Head(fields)[1], Head(fields)[2], "header"),
                     Tail(fields))

\* The index with the channels not interleaved: offset + (j + i) * 2.
IndexNoStride(numOfChan, i, j) == offset + (j + i) * 2

\* const index = offset + (j * numOfChan + i) * 2
Index(numOfChan, i, j) == offset + (j * numOfChan + i) * 2

\* bufferToWave(abuffer) up to its loops: the buffer and the header.
WriteHeader ==
    /\ wav.at = "call"
    /\ wav' = [wav EXCEPT
                 !.view = WriteFields(NewView(wav.numOfChan, wav.length),
                                      HeaderFields),
                 !.i = 0, !.j = 0, !.at = "loop"]
    /\ UNCHANGED <<waveVars, fileVars, eqVars, pipeline, rerun, totalSaved,
                   totalSkipped>>

\* The body of the inner loop for channel i and frame j, and j++.
WriteSample ==
    /\ wav.at = "loop"
    /\ wav.i < wav.numOfChan
    /\ wav.j < wav.length
    /\ LET index == Index(wav.numOfChan, wav.i, wav.j)
       IN  IF InView(wav.view, index, 2)
           THEN wav' = [wav EXCEPT
                          !.view = Set(wav.view, index, 2, <<wav.i, wav.j>>),
                          !.j = wav.j + 1]
           ELSE wav' = [wav EXCEPT !.at = "threw"]
    /\ UNCHANGED <<waveVars, fileVars, eqVars, pipeline, rerun, totalSaved,
                   totalSkipped>>

\* The inner loop is over: i++, and j starts at 0 again.
NextChannel ==
    /\ wav.at = "loop"
    /\ wav.i < wav.numOfChan
    /\ wav.j >= wav.length
    /\ wav' = [wav EXCEPT !.i = wav.i + 1, !.j = 0]
    /\ UNCHANGED <<waveVars, fileVars, eqVars, pipeline, rerun, totalSaved,
                   totalSkipped>>

\* The outer loop is over: return buffer.
ReturnBuffer ==
    /\ wav.at = "loop"
    /\ wav.i >= wav.numOfChan
    /\ wav' = [wav EXCEPT !.at = "returned"]
    /\ UNCHANGED <<waveVars, fileVars, eqVars, pipeline, rerun, totalSaved,
                   totalSkipped>>

\* bufferToWave is called with the AudioBuffer startRendering resolved
\* with: at least one channel and at least one frame.
InitWav ==
    /\ pipeline \in Pipelines
    /\ rerun = FALSE
    /\ totalSaved = 0
    /\ totalSkipped = 0
    /\ WaveIdle
    /\ FilesIdle
    /\ EqIdle
    /\ \E c \in 1..MaxChan, n \in 1..MaxFrames :
          wav = [at |-> "call", numOfChan |-> c, length |-> n, i |-> 0,
                 j |-> 0, view |-> << >>]

NextWav ==
    \/ WriteHeader
    \/ WriteSample
    \/ NextChannel
    \/ ReturnBuffer

\* One call of bufferToWave, statement by statement.
SpecWav == InitWav /\ [][NextWav]_vars

\* ---------------------------------------------------------------- properties

\* Jobs inside processAudio: dispatched, and neither resolved nor rejected.
Executing == {j \in Jobs : jobSt[j] \in {"fetching", "rendering"}}

\* Jobs of the waves before the current one.
EarlierWaves == Range(SubSeq(batchData, 1, Min(waveStart, Len(batchData))))

\* Jobs whose POST /save the server has handled in this run.
Persisted == {j \in Jobs : jobSt[j] \in {"replying", "saved"}}

\* Jobs handed to processAudio in this run.
Dispatched == {j \in Jobs : jobSt[j] # "idle"}

\* The latest existence probe of the run, if any, was answered.
ProbeAnswered == lastProbe.outcome # "error"

\* C1: the page emits the completion signal (POST /complete) at most once
\* in a run (stated for the runs whose latest probe was answered).
C1_SignalAtMostOnce == ProbeAnswered => completeSignals <= 1

\* C2: the failure of one job's processAudio stays inside that job: once
\* nothing is executing or being probed in a started reverb run, every job
\* of the list, the later waves included, has been skipped or dispatched.
C2_FailureIsolated ==
    (pipeline = "reverb" /\ pc \notin {"load", "probe", "probeReply"}
        /\ Executing = {} /\ ProbeAnswered)
        => \A j \in Range(batchData) : j \in skippedFiles \/ j \in Dispatched

C4_WaveFullyDrained ==
    (pipeline = "reverb" /\ pc \in {"probe", "probeReply", "await"}
        /\ ProbeAnswered)
        => \A j \in EarlierWaves : jobSt[j] \notin {"saving", "replying"}

\* C5: in the reverb pipeline a job whose probe returned true is in
\* skippedFiles, every job of skippedFiles is counted once in skippedJobs,
\* and none of them is handed to processAudio in that run.
C5_SkippedNeverProcessed ==
    pipeline = "reverb"
        => /\ lastProbe.outcome = "exists" => lastProbe.job \in skippedFiles
           /\ skippedFiles \cap Dispatched = {}
           /\ skippedJobs = Cardinality(skippedFiles)

\* C5 witness: a reverb run is over in which the last job was skipped on its
\* probe and an earlier one was rendered and saved.
C5_SkipAndRender ==
    /\ pipeline = "reverb"
    /\ pc = "done"
    /\ lastProbe.outcome = "exists"
    /\ \E j \in Jobs : jobSt[j] = "saved"

\* C6: in the run after a run that signalled completion (its server took
\* the signal and shut down on it), the rerun's latest probe answered,
\* nothing is rendered and every job is skipped.
C6_RerunRendersNothing ==
    (rerun /\ prevSignalled /\ ProbeAnswered)
        => /\ Dispatched = {}
           /\ pc = "done"
                 => IF pipeline = "reverb" THEN skippedJobs = numJobs
                    ELSE Len(batchData) = 0

\* C7: a run that started with every artifact present ends having rendered
\* nothing and having signalled completion, in both pipelines.
C7_AllPresentSignals ==
    (1..numJobs \subseteq startFiles /\ pc = "done")
        => Dispatched = {} /\ completeSignals >= 1

\* C8: completedJobs + skippedJobs never exceeds totalJobs; the completion
\* signal is emitted only when they are equal; and a started reverb run has
\* signalled completion exactly when they are equal.
C8_CounterInvariant ==
    /\ completedJobs + skippedJobs <= totalJobs
    /\ completeSignals > 0 => completedJobs + skippedJobs = totalJobs
    /\ (pipeline = "reverb" /\ pc # "load")
          => (completeSignals > 0 <=> completedJobs + skippedJobs = totalJobs)

\* C8 witness: a reverb run of three jobs has counted two of them, one
\* skipped and one completed, and has not signalled.
C8_PartlyCounted ==
    /\ pipeline = "reverb"
    /\ totalJobs = 3
    /\ completedJobs = 1
    /\ skippedJobs = 1
    /\ completeSignals = 0

\* C9: the jobs counted in completedJobs of a reverb run are jobs whose
\* artifact the server has persisted; a job whose save failed is not counted.
C9_CountedAfterPersist ==
    (pipeline = "reverb" /\ ProbeAnswered)
        => completedJobs <= Cardinality(Persisted)

\* C10: a job whose probe failed is not rendered on the assumption that its
\* artifact does not exist.
C10_ProbeFailureNotAbsent ==
    lastProbe.outcome = "error" => lastProbe.job \notin Dispatched
\* C11: a job whose processAudio rejected is counted neither as completed
\* nor as skipped: in a run with such a job completedJobs + skippedJobs
\* stays below totalJobs and no completion signal is emitted.
C11_FailedJobBlocksSignal ==
    (\E j \in Jobs : jobSt[j] = "rejected")
        => /\ completedJobs + skippedJobs < totalJobs
           /\ completeSignals = 0
           /\ ~isComplete

\* One job failed and every other job of the run was rendered or skipped.
C11_AllButOneCounted ==
    /\ totalJobs >= 2
    /\ Cardinality({j \in Jobs : jobSt[j] = "rejected"}) = 1
    /\ completedJobs + skippedJobs = totalJobs - 1
    /\ completedJobs >= 1

\* C12: once the timeout timer has fired with isComplete still false, the
\* server process has exited with code 1.
C12_TimeoutExitsNonZero ==
    (timerFired /\ ~isComplete) => serverSt = "exit1"

\* The timer fired on a run whose page was still rendering.
C12_TimedOutMidRun ==
    /\ serverSt = "exit1"
    /\ timerFired
    /\ \E j \in Jobs : jobSt[j] = "rendering"

\* C13: completion and timeout have one winner.  Once /complete has been
\* handled the timer's firing changes nothing but the timer itself and the
\* process never exits with code 1; once the timer has fired first the
\* process has exited with code 1 and never exits with code 0.
C13_OneWinner ==
    [][ /\ exitScheduled => serverSt' # "exit1"
        /\ (exitScheduled /\ timerFired' # timerFired)
              => UNCHANGED <<serverSt, isComplete, exitScheduled, totalSaved,
                             totalSkipped, files, completeInFlight>>
        /\ (~isComplete /\ timerFired' # timerFired) => serverSt' = "exit1"
        /\ serverSt = "exit1" => serverSt' = "exit1" /\ ~isComplete'
        /\ serverSt' = "exit0" => isComplete' ]_vars

\* The timer fired between /complete and the exit it scheduled, and the
\* process exited with code 0.
C13_TimerLostRace ==
    /\ isComplete
    /\ timerFired
    /\ serverSt = "exit0"

\* The two timers of the server: each fires once its delay has passed, as
\* long as the process is alive.
TimerFairness == WF_vars(TimeoutFire) /\ WF_vars(ExitTimerFire)

SpecLive == Init /\ [][Next]_vars /\ TimerFairness

\* C14: whatever the page does, the server process eventually exits, with
\* code 0 only after completion and with code 1 only after the timeout.
C14_ServerTerminates ==
    /\ <>(serverSt \in {"exit0", "exit1"})
    /\ [](serverSt = "exit0" => isComplete)
    /\ [](serverSt = "exit1" => timerFired /\ ~isComplete)

\* The server has exited although a render never came back.
C14_ExitedOnStalledRender ==
    /\ serverSt # "up"
    /\ \E j \in Jobs : jobSt[j] = "fetching"
    /\ \E j \in Jobs : jobSt[j] = "rendering"

\* The jobs of the page, by position in processingData.
JobIdx == 1..Len(processingData)

\* Every preset file is named <effect>_<id>.
RegularNames ==
    \A n \in DOMAIN presetDir :
        Len(Split(n, "_")) = 2 /\ Split(n, "_")[1] = <<pipeline>>

\* Every preset file is named <effect>_<id> and holds a vector of the
\* effect's length.
RegularPresets ==
    /\ RegularNames
    /\ \A n \in DOMAIN presetDir : Len(presetDir[n]) = VectorLen(pipeline)

\* C15: no two distinct (source, preset file) pairs of one derivation get
\* the same outputId.
C15_OutputIdsDistinct ==
    \A i, j \in JobIdx :
        i # j => processingData[i].outputId # processingData[j].outputId

\* C16: the job list derived in the second run over the same sources and
\* preset files is the job list of the first run, whatever artifacts exist.
C16_DerivationIgnoresArtifacts ==
    (rerun /\ RegularPresets /\ \A f \in outFiles : f.whole)
        => processingData = firstData

\* The first derivation is over: outputDir held no artifact when it ran.
FirstDerived == ~rerun /\ phase # "prepare"

\* S*P jobs, one for each pair of a source and a preset file.
OnePerPair ==
    /\ Len(processingData) = Cardinality(sources) * Cardinality(DOMAIN presetDir)
    /\ \A a \in sources : \A p \in DOMAIN presetDir :
          Cardinality({k \in JobIdx : /\ processingData[k].audioFile = a
                                      /\ processingData[k].presetFile = p}) = 1

\* C17 as stated: with nothing rendered yet prepare_data derives S*P jobs,
\* one per pair, each with outputId "<presetId>/<sourceName>".
C17_ProductWithBareIds ==
    FirstDerived =>
        /\ OnePerPair
        /\ \A k \in JobIdx :
              processingData[k].outputId =
                  PresetId(processingData[k].presetFile) \o <<"/">>
                      \o processingData[k].audioFile

\* C17: with nothing rendered yet prepare_data derives S*P jobs, one per
\* pair, each with outputId "<effect>_<presetId>/<sourceName>", the effect
\* being "reverb" or "eq".
C17_ProductWithPrefixedIds ==
    FirstDerived =>
        /\ OnePerPair
        /\ \A k \in JobIdx :
              processingData[k].outputId =
                  <<pipeline, "_">> \o PresetId(processingData[k].presetFile)
                      \o <<"/">> \o processingData[k].audioFile

\* Two sources and two presets have been derived into four jobs.
C17_TwoByTwo ==
    /\ FirstDerived
    /\ Cardinality(sources) = 2
    /\ Cardinality(DOMAIN presetDir) = 2
    /\ Len(processingData) = 4

\* C18: every artifact /save has stored comes with a sidecar that is the
\* copy of the preset file its job was derived from (already so when every
\* preset file is regular).
C18_SidecarWithArtifact ==
    RegularPresets =>
        \A f \in outFiles :
            f.whole => \E s \in sidecars : s.id = f.id /\ s.copyOf = f.from

\* C19: a job the probe of the second run reports as existing has a whole
\* artifact, not one a killed /save left in part.
C19_PartialNeverExists ==
    (rerun /\ phase = "run" /\ RegularPresets) =>
        \A k \in JobIdx :
            jobAt[k] = "skipped" =>
                \E f \in outFiles : f.id = processingData[k].outputId /\ f.whole

\* C20: no equalizer job is derived from a preset whose vector has not
\* Bands values, and the equalizer of a rendered job is built from the
\* whole vector, nothing cut off and nothing added.
C20_WrongLengthRejected ==
    (pipeline = "eq" /\ RegularNames) =>
        \A k \in JobIdx :
            /\ jobAt[k] \in {"new", "rendered", "posted"}
                  => Len(processingData[k].params) = Bands
            /\ jobAt[k] \in {"rendered", "posted"}
                  => EffectValues(pipeline, processingData[k].params)
                        = processingData[k].params

\* ------------------------------------------------- properties of equalizer.js

\* The last assignment was a curve of Bands values.
CurveAssigned == lastOp.kind = "curve" /\ Len(lastOp.value) = Bands

\* max_el == min_el for this curve.
Degenerate(curve) ==
    LET b == CurveBounds(curve, NoGlobals) IN b.max_el = b.min_el

\* min(0, min(curve)) and max(0, max(curve)).
Lowest(curve) ==
    CHOOSE m \in Range(curve) \cup {Num(0)} :
        \A v \in Range(curve) \cup {Num(0)} : ~Less(v, m)

Highest(curve) ==
    CHOOSE m \in Range(curve) \cup {Num(0)} :
        \A v \in Range(curve) \cup {Num(0)} : ~Less(m, v)

\* range * 5 * (((v - min_el) / (max_el - min_el)) * 2 - 1)
NormalizedGain(range, v, lo, hi) ==
    Mul(Mul(range, Num(5)),
        Sub(Mul(Div(Sub(v, lo), Sub(hi, lo)), Num(2)), Num(1)))

\* The gains the formula gives for a curve, value by value.
NormalizedGains(curve, range) ==
    CHOOSE s \in {[k \in 1..Bands |-> t[curve[k]]] :
                     t \in {[v \in Range(curve) |->
                               NormalizedGain(range, v, Lowest(curve),
                                              Highest(curve))]}} : TRUE

\* A new Equalizer with this range, assigned the curve.
FreshLoad(curve, range) ==
    CurveSetter(Constructed([curve |-> curve, range |-> range]), curve,
                NoGlobals).eq

\* C21: once a curve of Bands values has been assigned through the curve
\* setter, every value stored in param.curve lies in [-1, 1], also after the
\* range setter has run the curve setter again.
C21_StoredWithinUnit ==
    (Built /\ loadedVia = "curve")
        => \A k \in DOMAIN eq.param.curve :
              /\ ~Less(eq.param.curve[k], Num(-1))
              /\ ~Less(Num(1), eq.param.curve[k])

\* A curve has been assigned and a stored value lies strictly inside.
C21_StoredInside ==
    /\ Built
    /\ CurveAssigned
    /\ \E k \in DOMAIN eq.param.curve :
          /\ Less(Num(-1), eq.param.curve[k])
          /\ Less(eq.param.curve[k], Num(1))

\* C22: after a curve of Bands equal values (other than the all-zero curve)
\* is assigned, every band gain is 0.
C22_EqualValuesZeroGain ==
    (/\ CurveAssigned
     /\ \A k \in 1..Bands : lastOp.value[k] = lastOp.value[1]
     /\ lastOp.value[1] # Num(0))
        => \A k \in 1..Bands : eq.gains[k] = Num(0)

\* C23: after a curve with max_el == min_el is assigned, param.curve has
\* Bands entries and every band gain is 0.
C23_DegenerateDefined ==
    (CurveAssigned /\ Degenerate(lastOp.value))
        => /\ Len(eq.param.curve) = Bands
           /\ \A k \in 1..Bands : eq.gains[k] = Num(0)

\* C24: after a curve of Bands values with max_el != min_el is assigned,
\* the gain of band k is range * 5 * (((curve[k] - min_el) / (max_el -
\* min_el)) * 2 - 1) with min_el = min(0, min(curve)) and max_el = max(0,
\* max(curve)).
C24_GainFormula ==
    (CurveAssigned /\ ~Degenerate(lastOp.value))
        => eq.gains = NormalizedGains(lastOp.value, eq.param.range)

\* Such a curve has been assigned, and a band lies strictly between the
\* lowest and the highest: its gain is neither of the extremes.
C24_MidBand ==
    /\ CurveAssigned
    /\ ~Degenerate(lastOp.value)
    /\ \E k \in 1..Bands :
          /\ eq.gains[k] # Mul(eq.param.range, Num(5))
          /\ eq.gains[k] # Mul(eq.param.range, Num(-5))
          /\ eq.gains[k] # Num(0)

\* C25: the gains of an Equalizer built by new Equalizer(context, {curve})
\* are the normalized gains range * 5 * normalized(curve[k]).
C25_BuiltWithNormalizedGains ==
    (lastOp.kind = "new" /\ ~Degenerate(lastOp.value))
        => eq.gains = NormalizedGains(lastOp.value, eq.param.range)

\* C26: after a curve is assigned and then only ranges, the gains are those
\* of a new Equalizer loaded with the same curve at the range last assigned.
C26_RangeAsFreshLoad ==
    (lastOp.kind = "range" /\ loadedVia = "curve" /\ ~Degenerate(given))
        => eq.gains = FreshLoad(given, eq.param.range).gains

\* C27: assigning range leaves the stored normalized curve as it was.
C27_RangeKeepsCurve ==
    (lastOp.kind = "range" /\ loadedVia = "curve")
        => eq.param.curve = before.param.curve

\* C28: after a curve whose length is not Bands is assigned, param.curve,
\* param.range and the Bands gains are what they were before.
C28_WrongLengthAppliesNothing ==
    (lastOp.kind = "curve" /\ Len(lastOp.value) # Bands) => eq = before

\* A curve of another length was assigned to an Equalizer that holds a
\* normalized curve.
C28_RefusedOnLoaded ==
    /\ lastOp.kind = "curve"
    /\ Len(lastOp.value) # Bands
    /\ loadedVia = "curve"
    /\ Len(eq.param.curve) = Bands

\* C29: the Equalizer is what it would be in a page without any other
\* Equalizer: nothing of what the others leave in i, max_el, min_el and dat
\* reaches its curve, its range or its gains.
C29_NoCarryOver == Built => eq = solo

\* A curve was assigned while max_el or min_el held a bound of another
\* Equalizer's curve that lies outside this curve's bounds.
C29_AssignedAfterOther ==
    /\ CurveAssigned
    /\ ~Degenerate(lastOp.value)
    /\ lastOp.found.max_el # NoNumber
    /\ \/ Less(Highest(lastOp.value), lastOp.found.max_el)
       \/ Less(lastOp.found.min_el, Lowest(lastOp.value))

\* C30: within one processBatch run a job is handed to processAudio only
\* while it has not been handed to it before, and when the run reaches the
\* end of its loop (no processAudio has rejected) every job of the list has
\* either been skipped or been rendered, never both.
C30_EachJobOnce ==
    /\ [][\A j \in Jobs :
            (jobSt'[j] = "fetching" /\ jobSt[j] # "fetching")
                => jobSt[j] = "idle"]_vars
    /\ [](pc = "done"
            => \A j \in Range(batchData) :
                  (j \in skippedFiles) # Resolved(jobSt[j]))

\* A run of more than one wave is over with every job of the list rendered
\* and stored.
C30_AllRenderedInWaves ==
    /\ pc = "done"
    /\ Len(batchData) > batchSize
    /\ batchSize > 1
    /\ \A j \in Range(batchData) : jobSt[j] = "saved"

\* ------------------------------------------ probes, waves, requests, bufferToWave

\* C31: the server handling GET /check-file changes nothing of its state:
\* not the stored artifacts, not isComplete, not totalSaved, not
\* totalSkipped.
C31_ProbeReadOnly ==
    [][(pc = "probe" /\ pc' = "probeReply")
          => UNCHANGED <<files, isComplete, totalSaved, totalSkipped>>]_vars

\* The keys of processedBuffers: the jobs whose render has been encoded.
ProcessedBuffers == {j \in Jobs : Resolved(jobSt[j])}

\* The jobs whose processAudio has rejected.
Failed == {j \in Jobs : jobSt[j] = "rejected"}

\* C32: when a run has ended on a failure and nothing is executing any more,
\* the failed jobs are exactly the jobs the page can name from what it keeps
\* per job: those of the list that are neither in processedBuffers nor in
\* skippedFiles.
C32_FailedEnumerable ==
    (pc = "aborted" /\ Executing = {})
        => Failed = Range(batchData) \ (ProcessedBuffers \cup skippedFiles)

\* The wave of the job at position k of the list.
WaveOf(k) == Range(Batch(batchData, ((k - 1) \div batchSize) * batchSize,
                         batchSize))

\* C33: in the reverb run no job's probe returns twice, a job is handed to
\* processAudio only when the probe of every job of its wave has returned,
\* while a wave is being probed none of its jobs has been handed over, and
\* at the end of the loop every job has been probed once.
C33_ProbedOnceBeforeRender ==
    pipeline = "reverb"
        => /\ \A j \in Jobs : probes[j] <= 1
           /\ \A k \in 1..Len(batchData) :
                 batchData[k] \in Dispatched
                     => \A j \in WaveOf(k) : probes[j] = 1
           /\ pc \in {"probe", "probeReply"}
                 => Range(Batch(batchData, waveStart, batchSize))
                        \cap Dispatched = {}
           /\ pc = "done" => \A j \in Range(batchData) : probes[j] = 1

\* The second wave of a reverb run is being rendered after both jobs of the
\* first wave were probed, one of them skipped and the other rendered.
C33_SecondWaveRendering ==
    /\ pipeline = "reverb"
    /\ batchSize = 2
    /\ pc = "await"
    /\ waveStart = 2
    /\ skippedFiles # {}
    /\ \E j \in Range(Batch(batchData, 0, batchSize)) : Resolved(jobSt[j])

\* The number of times the body of the for loop runs: i = 0, w, 2w, ...
\* while i < data.length.
NumWaves(data, w) == (Len(data) + w - 1) \div w

\* The waves of the loop over data, in the order the loop takes them.
Waves(data, w) == [k \in 1..NumWaves(data, w) |-> Batch(data, (k - 1) * w, w)]

\* The jobs of the waves, one wave after the other.
RECURSIVE Flatten(_)
Flatten(ws) == IF ws = << >> THEN << >> ELSE Head(ws) \o Flatten(Tail(ws))

\* C34: the waves processBatch takes are consecutive pieces of the job
\* list, in list order; together they are the list (every job is in exactly
\* one wave), none has more than batchSize jobs, every wave but the last has
\* exactly batchSize jobs, and the loop index is always the start of one.
C34_WavesPartition ==
    LET ws == Waves(batchData, batchSize)
    IN  /\ Flatten(ws) = batchData
        /\ \A k \in 1..Len(ws) : Len(ws[k]) >= 1 /\ Len(ws[k]) <= batchSize
        /\ \A k \in 1..(Len(ws) - 1) : Len(ws[k]) = batchSize
        /\ waveStart % batchSize = 0
        /\ pc \in {"probe", "probeReply", "await"}
              => waveStart \div batchSize + 1 \in 1..Len(ws)

\* The last wave of a list of three jobs cut in waves of two is under way:
\* it has one job.
C34_ShortLastWave ==
    /\ Len(batchData) = 3
    /\ batchSize = 2
    /\ waveStart = 2
    /\ pc \in {"probe", "await"}

\* The server handles a POST /complete: it answers and sets the exit timer.
CompleteHandled ==
    /\ serverSt = "up" /\ serverSt' = "up"
    /\ completeInFlight' = completeInFlight - 1
    /\ isComplete' /\ exitScheduled'

\* C36: when the server handles POST /complete and schedules its exit, every
\* job of the run that was not skipped has its artifact stored: no POST /save
\* is in flight or still to be sent.
C36_CompleteAfterSaves ==
    [][CompleteHandled =>
          \A j \in Range(batchData) \ skippedFiles :
              j \in files /\ jobSt[j] \notin {"saving", "idle"}]_vars

\* C39: the curve stored in an Equalizer built from a curve of Bands values
\* has Bands entries after any sequence of curve and range assignments.
C39_StoredCurveKeepsLength ==
    Built => Len(eq.param.curve) = Bands

\* No job of the list has been taken up yet.
JustLaunched == phase = "run" /\ \A k \in JobIdx : jobAt[k] = "new"

\* C35: once /save has stored the artifact of an outputId, /check-file for
\* that outputId answers exists = true, and the pairs the EQ prepare_data
\* leaves out are those whose artifact /save has stored; for an outputId no
\* /save has written, /check-file answers false.
C35_ProbeAgreesWithSave ==
    /\ \A k \in JobIdx :
          /\ jobAt[k] = "probed" =>
                processingData[k].outputId \notin Ids(outFiles)
          /\ jobAt[k] = "skipped" =>
                processingData[k].outputId \in Ids(outFiles)
    /\ (pipeline = "eq" /\ JustLaunched) =>
          /\ \A k \in JobIdx : processingData[k].outputId \notin Ids(outFiles)
          /\ \A a \in sources : \A p \in DOMAIN presetDir :
                \/ OutputId(pipeline, PresetId(p), a) \in Ids(outFiles)
                \/ \E k \in JobIdx :
                      processingData[k].outputId
                          = OutputId(pipeline, PresetId(p), a)

\* The server has just answered a request on `route` that lacked a field.
AnsweredLacking(route) ==
    /\ reply' # reply
    /\ reply'.route = route
    /\ reply'.id = Absent \/ (route = "save" /\ reply'.data = Absent)

\* C38: a POST /save without id or without data is answered 400, writes no
\* file and leaves totalSaved as it is; a GET /check-file without id is
\* answered 400 and leaves totalSkipped as it is.
C38_LackingRefused ==
    [][/\ AnsweredLacking("save") =>
             /\ reply'.status = 400
             /\ UNCHANGED <<outFiles, outDirs, sidecars, totalSaved,
                            totalSkipped>>
       /\ AnsweredLacking("check-file") =>
             /\ reply'.status = 400
             /\ UNCHANGED <<outFiles, outDirs, sidecars, totalSaved,
                            totalSkipped>>]_vars

\* A request without id was refused by a server that has stored an artifact
\* and counted a skip.
C38_RefusedWithStored ==
    /\ reply.status = 400
    /\ reply.id = Absent
    /\ outFiles # {}
    /\ totalSaved > 0
    /\ totalSkipped > 0

\* ---------------------------------------------------------------- a run without failures

\* The steps of a run in which no probe, no fetch, no render and no save
\* fails and the TIMEOUT_MINUTES timer does not fire.
NextOk ==
    \/ ProcessBatchStart
    \/ CheckFile
    \/ ProbeReturn
    \/ \E j \in Jobs : FetchOk(j)
    \/ \E j \in Jobs : RenderDone(j)
    \/ \E j \in Jobs : ServerSave(j)
    \/ \E j \in Jobs : SaveResponse(j)
    \/ CompleteHandle
    \/ ExitTimerFire

\* The event loops of the page and of the server run every callback that is
\* due: a reply that is on its way arrives, a request that was sent is
\* handled, a timer that was set fires.
RunFairness ==
    /\ WF_vars(ProcessBatchStart)
    /\ WF_vars(CheckFile)
    /\ WF_vars(ProbeReturn)
    /\ \A j \in Jobs : WF_vars(FetchOk(j))
    /\ \A j \in Jobs : WF_vars(RenderDone(j))
    /\ \A j \in Jobs : WF_vars(ServerSave(j))
    /\ \A j \in Jobs : WF_vars(SaveResponse(j))
    /\ WF_vars(CompleteHandle)
    /\ WF_vars(ExitTimerFire)

\* A run in which every probe, render and save succeeds.
SpecOk == Init /\ [][NextOk]_vars /\ RunFairness

\* POST /complete has been sent with the counters at the numbers of the
\* rendered and of the skipped jobs.
SignalledWithCounts ==
    /\ completeSignals > 0
    /\ completedJobs = Cardinality(ProcessedBuffers)
    /\ skippedJobs = Cardinality(skippedFiles)

\* C37: a run in which every probe, render and save succeeds eventually
\* sends POST /complete, with completedJobs the number of rendered jobs and
\* skippedJobs the number of jobs whose probe returned true.
C37_EventuallySignals == <>SignalledWithCounts

\* The (channel, frame) pairs of the buffer.
Samples == (0..(wav.numOfChan - 1)) \X (0..(wav.length - 1))

\* The bytes of the data section of the buffer.
DataBytes == offset..(offset + DataLength(wav.numOfChan, wav.length) - 1)

\* C40: bufferToWave writes the sample of channel i and frame j once, at
\* the two bytes from 44 + (j * channels + i) * 2: these offsets differ
\* from pair to pair, lie inside the buffer of 44 + N * C * 2 bytes, never
\* in the header, and when the function returns every byte of the data
\* section has been written exactly once.
C40_EachSampleOnce ==
    (wav.at # "idle") =>
        /\ wav.at # "threw"
        /\ \A s, t \in Samples :
              s # t => Index(wav.numOfChan, s[1], s[2])
                           # Index(wav.numOfChan, t[1], t[2])
        /\ \A s \in Samples :
              /\ Index(wav.numOfChan, s[1], s[2]) >= offset
              /\ Index(wav.numOfChan, s[1], s[2]) + 2
                    <= offset + wav.length * wav.numOfChan * 2
        /\ wav.at \in {"loop", "returned"} =>
              /\ DOMAIN wav.view
                    = 0..(offset + wav.length * wav.numOfChan * 2 - 1)
              /\ \A b \in DOMAIN wav.view :
                    IF b < offset THEN wav.view[b] = <<"header">>
                    ELSE Len(wav.view[b]) <= 1
        /\ wav.at = "returned" =>
              /\ \A s \in Samples :
                    \A b \in {Index(wav.numOfChan, s[1], s[2]),
                              Index(wav.numOfChan, s[1], s[2]) + 1} :
                        wav.view[b] = <<s>>
              /\ \A b \in DataBytes : Len(wav.view[b]) = 1

\* bufferToWave has returned the buffer of a stereo AudioBuffer of several
\* frames.
C40_StereoReturned ==
    /\ wav.at = "returned"
    /\ wav.numOfChan = 2
    /\ wav.length >= 2

====
